---- MODULE Spec2Model ----
(***************************************************************************)
(* Model of backend/src/utils.py of github-trends: the alru_cache          *)
(* decorator (a bounded, time-expiring memo table for awaitable functions) *)
(* and the fail_gracefully family of response-envelope decorators.         *)
(***************************************************************************)
EXTENDS Integers, Sequences, FiniteSets, TLC

(* ------------------------------ bounds -------------------------------- *)
\* the clock datetime.now() runs over 0..MaxTime
MaxTime == 2
\* alru_cache(max_size=...) is drawn from 1..MaxMaxSize
MaxMaxSize == 2
\* alru_cache(ttl=...) in clock units
Ttl == 1
\* number of callers of the one wrapped function
NumProcs == 2
\* most positional, and most keyword, arguments of a call compared for its key
MaxArgs == 2

VARIABLES
    max_size,   \* alru_cache parameter, fixed at decoration
    ttl,        \* alru_cache parameter, fixed at decoration
    cache,      \* decorator.cache: key -> <<insertion time, value>>
    keys,       \* decorator.keys: list of keys in append order
    now,        \* the wall clock read by datetime.now()
    calls,      \* per caller: the wrapper call suspended at `await func(...)`
    last,       \* the most recently completed wrapper call, as its caller saw it
    firsts,     \* the keys ever stored, in the order of their first store
    clean,      \* TRUE while every store so far was of a key never stored before
    pair,       \* the two calls compared for their keys
    response,   \* response.status_code of the Response handed to the wrapped work
    req,        \* the fail_gracefully wrapper call in progress
    done,       \* the most recently completed fail_gracefully wrapper call
    prev,       \* the wrapper call completed before `done`
    image       \* the most recently completed svg_fail_gracefully wrapper call

cacheVars == <<max_size, ttl, cache, keys, calls, last, firsts, clean, pair>>
envVars == <<response, req, done, prev, image>>

vars == <<max_size, ttl, cache, keys, now, calls, last, firsts, clean, pair,
          response, req, done, prev, image>>

(* --------------------------- python values ---------------------------- *)
\* Python values are written as their literals.
NoneVal == "None"
\* values for which `not value` is true
Falsy == {"None", "[]", "''", "0"}
\* results the wrapped function P may return
Values == {"[]", "V1", "V2"}
\* descriptions str(e) of the exceptions P may raise
Errors == {"E1"}

\* mutant: only None counts as empty (`value is None`)
not_only_none(value) == value = NoneVal

\* `not value` (line 125)
not_(value) == value \in Falsy

Procs == 1..NumProcs

(* ------------------------------- keys --------------------------------- *)
\* A call is (args, kwargs): args a tuple of values, kwargs the keyword
\* arguments as the sequence of <<name, value>> pairs in the order written.
Range(s) == {s[i] : i \in DOMAIN s}

\* mutant: the keyword arguments keep their order (`tuple(kwargs.items())`)
make_key_ordered(args, kwargs) == <<args, kwargs>>

\* key = tuple(args), frozenset(kwargs.items())   (line 122)
make_key(args, kwargs) == <<args, Range(kwargs)>>

\* the call shapes the callers use
CallShapes ==
    { [args |-> <<"a">>, kwargs |-> <<>>],
      [args |-> <<"b">>, kwargs |-> <<>>],
      [args |-> <<>>, kwargs |-> << <<"x", "a">>, <<"y", "b">> >>],
      [args |-> <<>>, kwargs |-> << <<"y", "b">>, <<"x", "a">> >>] }

NoKey == make_key(<<>>, <<>>)

\* every call of at most MaxArgs positional and MaxArgs keyword arguments
\* (a keyword appears once in a call)
ArgValues == {"a", "b"}
KwNames == {"x", "y"}
ArgTuples == UNION {[1..n -> ArgValues] : n \in 0..MaxArgs}
KwSeqs ==
    {s \in UNION {[1..n -> KwNames \X ArgValues] : n \in 0..MaxArgs} :
        \A i, j \in DOMAIN s : s[i][1] = s[j][1] => i = j}
AllShapes == [args : ArgTuples, kwargs : KwSeqs]

(* --------------------------- wrapper results -------------------------- *)
Return(v) == [kind |-> "return", val |-> v]
Raise(e) == [kind |-> "raise", val |-> e]
Nothing == [kind |-> "none", val |-> NoneVal]

\* dict operations
Has(d, k) == k \in DOMAIN d
Put(d, k, e) == [x \in (DOMAIN d) \cup {k} |-> IF x = k THEN e ELSE d[x]]
Del(d, k) == [x \in (DOMAIN d) \ {k} |-> d[x]]

\* mutant: the table is never consulted
must_invoke_always(c, key, t, life) == TRUE

\* mutant: an entry of age exactly ttl counts as expired (`>=`)
must_invoke_ge(c, key, t, life) == ~Has(c, key) \/ t - c[key][1] >= life

\* `key not in cache or now - cache[key][0] > ttl`   (line 123)
must_invoke(c, key, t, life) == ~Has(c, key) \/ t - c[key][1] > life

\* `return cache[key][1]`   (line 131): KeyError when the key is gone
return_cached(c, key) ==
    IF Has(c, key) THEN Return(c[key][2]) ELSE Raise("KeyError")

\* mutant: the failure is swallowed and None returned
on_raise_swallow(c, ks, e) == [cache |-> c, keys |-> ks, ret |-> Return(NoneVal)]

\* line 124, `await func(...)` raising e: there is no handler around it, so
\* the exception leaves the wrapper and lines 125-131 do not run
on_raise(c, ks, e) == [cache |-> c, keys |-> ks, ret |-> Raise(e)]

\* mutant: eviction starts one entry late (`len(keys) > max_size + 1`)
after_await_late(c, ks, size, key, t, value) ==
    IF value \in Falsy
    THEN [cache |-> c, keys |-> ks, ret |-> Return(NoneVal)]
    ELSE LET c1 == Put(c, key, <<t, value>>)
             ks1 == Append(ks, key)
         IN  IF Len(ks1) > size + 1
             THEN LET k0 == Head(ks1)
                      ks2 == Tail(ks1)
                  IN  IF Has(c1, k0)
                      THEN [cache |-> Del(c1, k0), keys |-> ks2,
                            ret |-> return_cached(Del(c1, k0), key)]
                      ELSE [cache |-> c1, keys |-> ks2, ret |-> Raise("KeyError")]
             ELSE [cache |-> c1, keys |-> ks1, ret |-> return_cached(c1, key)]

\* mutant: the newest key is evicted (`keys.pop()`)
after_await_newest(c, ks, size, key, t, value) ==
    IF value \in Falsy
    THEN [cache |-> c, keys |-> ks, ret |-> Return(NoneVal)]
    ELSE LET c1 == Put(c, key, <<t, value>>)
             ks1 == Append(ks, key)
         IN  IF Len(ks1) > size
             THEN LET k0 == ks1[Len(ks1)]
                      ks2 == SubSeq(ks1, 1, Len(ks1) - 1)
                  IN  IF Has(c1, k0)
                      THEN [cache |-> Del(c1, k0), keys |-> ks2,
                            ret |-> return_cached(Del(c1, k0), key)]
                      ELSE [cache |-> c1, keys |-> ks2, ret |-> Raise("KeyError")]
             ELSE [cache |-> c1, keys |-> ks1, ret |-> return_cached(c1, key)]

\* mutant: a falsy result is handed back as it is (`return value`)
after_await_same(c, ks, size, key, t, value) ==
    IF value \in Falsy
    THEN [cache |-> c, keys |-> ks, ret |-> Return(value)]
    ELSE LET c1 == Put(c, key, <<t, value>>)
             ks1 == Append(ks, key)
         IN  IF Len(ks1) > size
             THEN LET k0 == Head(ks1)
                      ks2 == Tail(ks1)
                  IN  IF Has(c1, k0)
                      THEN [cache |-> Del(c1, k0), keys |-> ks2,
                            ret |-> return_cached(Del(c1, k0), key)]
                      ELSE [cache |-> c1, keys |-> ks2, ret |-> Raise("KeyError")]
             ELSE [cache |-> c1, keys |-> ks1, ret |-> return_cached(c1, key)]

\* lines 125-131, run after `await func(...)` returned `value`:
\* the table, the order list and the outcome of the wrapper call
after_await(c, ks, size, key, t, value) ==
    IF not_(value)
    THEN [cache |-> c, keys |-> ks, ret |-> Return(NoneVal)]
    ELSE LET c1 == Put(c, key, <<t, value>>)
             ks1 == Append(ks, key)
         IN  IF Len(ks1) > size
             THEN LET k0 == Head(ks1)
                      ks2 == Tail(ks1)
                  IN  IF Has(c1, k0)
                      THEN [cache |-> Del(c1, k0), keys |-> ks2,
                            ret |-> return_cached(Del(c1, k0), key)]
                      ELSE [cache |-> c1, keys |-> ks2, ret |-> Raise("KeyError")]
             ELSE [cache |-> c1, keys |-> ks1, ret |-> return_cached(c1, key)]

(* ------------------------------ the clock ------------------------------ *)
\* time passes
Tick ==
    /\ now < MaxTime
    /\ now' = now + 1
    /\ UNCHANGED <<cacheVars, envVars>>

(* ----------------------- the envelope wrappers ------------------------- *)
\* status.HTTP_200_OK and status.HTTP_500_INTERNAL_SERVER_ERROR
HTTP_200_OK == 200
HTTP_500_INTERNAL_SERVER_ERROR == 500

\* status codes the wrapped work may itself put on the response
WorkStatusCodes == {404}
\* results the wrapped work may return, and str(e) of what it may raise
WorkValues == {"V1", "[]"}
WorkErrors == {"E1", "E2"}

\* the dict the wrappers return
Envelope(data, message, time) == [data |-> data, message |-> message, time |-> time]

\* mutant: a success puts 200 on the response
fail_gracefully_reset(status, outcome, start, end) ==
    IF outcome.kind = "return"
    THEN [status |-> HTTP_200_OK, log |-> <<>>,
          result |-> Envelope(outcome.val, "200 OK", end - start)]
    ELSE [status |-> HTTP_500_INTERNAL_SERVER_ERROR, log |-> <<outcome.val>>,
          result |-> Envelope("[]", "Error " \o outcome.val, end - start)]

\* fail_gracefully.wrapper (lines 17-29): `status` is response.status_code as
\* func left it, `outcome` what func did, start and end the two clock readings
fail_gracefully(status, outcome, start, end) ==
    IF outcome.kind = "return"
    THEN [status |-> status, log |-> <<>>,
          result |-> Envelope(outcome.val, "200 OK", end - start)]
    ELSE [status |-> HTTP_500_INTERNAL_SERVER_ERROR, log |-> <<outcome.val>>,
          result |-> Envelope("[]", "Error " \o outcome.val, end - start)]

\* mutant: the failure branch of the awaiting form reports 200
async_fail_gracefully_ok(status, outcome, start, end) ==
    IF outcome.kind = "return"
    THEN [status |-> status, log |-> <<>>,
          result |-> Envelope(outcome.val, "200 OK", end - start)]
    ELSE [status |-> HTTP_200_OK, log |-> <<outcome.val>>,
          result |-> Envelope("[]", "Error " \o outcome.val, end - start)]

\* async_fail_gracefully.wrapper (lines 36-50)
async_fail_gracefully(status, outcome, start, end) ==
    IF outcome.kind = "return"
    THEN [status |-> status, log |-> <<>>,
          result |-> Envelope(outcome.val, "200 OK", end - start)]
    ELSE [status |-> HTTP_500_INTERNAL_SERVER_ERROR, log |-> <<outcome.val>>,
          result |-> Envelope("[]", "Error " \o outcome.val, end - start)]

\* pubsub_fail_gracefully.wrapper (lines 58-72)
pubsub_fail_gracefully(status, outcome, start, end) ==
    IF outcome.kind = "return"
    THEN [status |-> status, log |-> <<>>,
          result |-> Envelope(outcome.val, "200 OK", end - start)]
    ELSE [status |-> HTTP_200_OK, log |-> <<outcome.val>>,
          result |-> Envelope("[]", "Error " \o outcome.val, end - start)]

Variants == {"sync", "async", "pubsub"}

Wrapper(variant, status, outcome, start, end) ==
    CASE variant = "sync" -> fail_gracefully(status, outcome, start, end)
      [] variant = "async" -> async_fail_gracefully(status, outcome, start, end)
      [] variant = "pubsub" -> pubsub_fail_gracefully(status, outcome, start, end)

NoReq == [pc |-> "idle", variant |-> "none", start |-> 0]
NoDone == [variant |-> "none", outcome |-> Nothing, work_status |-> HTTP_200_OK,
           status |-> HTTP_200_OK, result |-> Envelope(NoneVal, "", 0), log |-> <<>>]
\* a completed call without its elapsed time
Brief(d) == [variant |-> d.variant, outcome |-> d.outcome, work_status |-> d.work_status,
             status |-> d.status, data |-> d.result.data, message |-> d.result.message]

\* lines 18, 39, 61: a wrapper is called with a fresh response; it reads the clock
EnvCall(variant) ==
    /\ req.pc = "idle"
    /\ req' = [pc |-> "running", variant |-> variant, start |-> now]
    /\ response' = HTTP_200_OK
    /\ UNCHANGED <<cacheVars, now, done, prev, image>>

\* the wrapped work sets response.status_code
WorkSetsStatus(code) ==
    /\ req.pc = "running"
    /\ response' = code
    /\ UNCHANGED <<cacheVars, now, req, done, prev, image>>

\* lines 20-29, 41-50, 63-72: the work is over and the wrapper returns
EnvComplete(outcome) ==
    LET r == Wrapper(req.variant, response, outcome, req.start, now) IN
    /\ req.pc = "running"
    /\ response' = r.status
    /\ done' = [variant |-> req.variant, outcome |-> outcome, work_status |-> response,
                status |-> r.status, result |-> r.result, log |-> r.log]
    /\ prev' = Brief(done)
    /\ req' = NoReq
    /\ UNCHANGED <<cacheVars, now, image>>

WorkReturns == \E v \in WorkValues : EnvComplete(Return(v))
WorkRaises == \E e \in WorkErrors : EnvComplete(Raise(e))

(* --------------------------- the image wrapper ------------------------- *)
\* drawings the wrapped work may return; it may also return something that
\* is no Drawing (None), or raise
Drawings == {"D1", "D2"}
SvgErrors == {"E1", "E2"}

\* get_error_svg() (line 91): the pre-built static error drawing
get_error_svg == "ErrorDrawing"

\* d.write(sio); sio.getvalue() (lines 94-95, 100): the text of a drawing
write(d) == "<svg>" \o d \o "</svg>"

\* d.write exists on drawings only (line 95): anything else has no `write`
Writable(d) == d \in Drawings \cup {get_error_svg}

\* Response(body, media_type=..., status_code=...) (lines 99-101), with the
\* elapsed time printed at line 97
SvgResponse(body, status_code, elapsed) ==
    [kind |-> "response", body |-> body, media_type |-> "image/svg+xml",
     status_code |-> status_code, printed |-> <<elapsed>>]

\* an exception leaving the wrapper
SvgRaised(e) ==
    [kind |-> "raise", body |-> e, media_type |-> "", status_code |-> 0, printed |-> <<>>]

\* mutant: the failure branch reports 500 like the generic wrapper
svg_fail_gracefully_500(outcome, start, end) ==
    LET d == IF outcome.kind = "return" THEN outcome.val ELSE get_error_svg
        status_code == IF outcome.kind = "return"
                       THEN HTTP_200_OK ELSE HTTP_500_INTERNAL_SERVER_ERROR
    IN  IF Writable(d)
        THEN SvgResponse(write(d), status_code, end - start)
        ELSE SvgRaised("AttributeError")

\* svg_fail_gracefully.wrapper (lines 80-101): the try block sets d and
\* status_code (lines 86-92); the serialisation of d (lines 94-95) runs
\* after it, outside any handler
svg_fail_gracefully(outcome, start, end) ==
    LET d == IF outcome.kind = "return" THEN outcome.val ELSE get_error_svg
        status_code == IF outcome.kind = "return" THEN HTTP_200_OK ELSE HTTP_200_OK
    IN  IF Writable(d)
        THEN SvgResponse(write(d), status_code, end - start)
        ELSE SvgRaised("AttributeError")

NoImage == [outcome |-> Nothing, result |-> SvgRaised("")]

\* line 85: the image wrapper is called; it reads the clock
SvgCall == EnvCall("svg")

\* lines 86-101: the work is over; the wrapper serialises and returns
SvgComplete(outcome) ==
    /\ req.pc = "running" /\ req.variant = "svg"
    /\ image' = [outcome |-> outcome,
                 result |-> svg_fail_gracefully(outcome, req.start, now)]
    /\ req' = NoReq
    /\ UNCHANGED <<cacheVars, now, response, done, prev>>

SvgWorkReturns == \E d \in Drawings \cup {NoneVal} : SvgComplete(Return(d))
SvgWorkRaises == \E e \in SvgErrors : SvgComplete(Raise(e))

\* a request's Response reports 200 until something sets its status_code
InitEnv ==
    /\ response = HTTP_200_OK
    /\ req = NoReq
    /\ done = NoDone
    /\ prev = Brief(NoDone)
    /\ image = NoImage

(* ------------------------------ state --------------------------------- *)
\* the last completed call invoked P and stored its result
TruthyStored == last.pres.kind = "return" /\ last.pres.val \notin Falsy

Idle == [pc |-> "idle", key |-> NoKey, now |-> 0]

\* what the caller of a completed wrapper call saw: its key, what P did
\* (Nothing when P was not invoked), what the wrapper did, whether the call
\* completed before it had the same key, and whether the call replaced an
\* entry by one with an earlier insertion time
Seen(key, pres, ret) ==
    [key |-> key, pres |-> pres, ret |-> ret, again |-> last.key = key, older |-> FALSE]

NoCall == [key |-> NoKey, pres |-> Nothing, ret |-> Nothing, again |-> FALSE,
           older |-> FALSE]

NoPair == <<[args |-> <<>>, kwargs |-> <<>>], [args |-> <<>>, kwargs |-> <<>>]>>

InFlight == {p \in Procs : calls[p].pc = "await"}

InitCache ==
    /\ max_size \in 1..MaxMaxSize
    /\ ttl = Ttl
    /\ cache = <<>>
    /\ keys = <<>>
    /\ now = 0
    /\ calls = [p \in Procs |-> Idle]
    /\ last = NoCall
    /\ firsts = <<>>
    /\ clean = TRUE

Init ==
    /\ InitCache
    /\ pair = NoPair
    /\ InitEnv

\* a wrapper that lets a call wait for the result of an overlapping call
\* with the same key instead of invoking P itself
CallWrapper_dedup(p, shape) ==
    LET key == make_key(shape.args, shape.kwargs) IN
    /\ calls[p].pc = "idle"
    /\ IF must_invoke(cache, key, now, ttl)
       THEN /\ calls' = [calls EXCEPT ![p] =
                   [pc |-> IF \E q \in InFlight : calls[q].key = key
                           THEN "join" ELSE "await",
                    key |-> key, now |-> now]]
            /\ UNCHANGED last
       ELSE /\ last' = Seen(key, Nothing, return_cached(cache, key))
            /\ UNCHANGED calls
    /\ UNCHANGED <<max_size, ttl, cache, keys, now, firsts, clean, pair, envVars>>

\* lines 121-123 and, on a hit, 131: caller p calls the wrapper
CallWrapper(p, shape) ==
    LET key == make_key(shape.args, shape.kwargs) IN
    /\ calls[p].pc = "idle"
    /\ IF must_invoke(cache, key, now, ttl)
       THEN /\ calls' = [calls EXCEPT ![p] = [pc |-> "await", key |-> key, now |-> now]]
            /\ UNCHANGED last
       ELSE /\ last' = Seen(key, Nothing, return_cached(cache, key))
            /\ UNCHANGED calls
    /\ UNCHANGED <<max_size, ttl, cache, keys, now, firsts, clean, pair, envVars>>

\* an insertion time read when P completes
insertion_time_completion(p) == now

\* lines 121 and 127: the time stored with the entry is the `now` the call
\* of p read at its start
insertion_time(p) == calls[p].now

\* lines 124-131: P returns `value` to the suspended call of p
PReturns(p, value) ==
    LET key == calls[p].key
        r == after_await(cache, keys, max_size, key, insertion_time(p), value)
    IN
    /\ calls[p].pc = "await"
    /\ cache' = r.cache
    /\ keys' = r.keys
    /\ calls' = [calls EXCEPT ![p] = Idle]
    /\ last' = [Seen(key, Return(value), r.ret) EXCEPT
                   !.older = /\ Has(cache, key) /\ Has(r.cache, key)
                             /\ r.cache[key][1] < cache[key][1]]
    /\ IF not_(value)
       THEN UNCHANGED <<firsts, clean>>
       ELSE IF key \in Range(firsts)
            THEN clean' = FALSE /\ UNCHANGED firsts
            ELSE firsts' = Append(firsts, key) /\ UNCHANGED clean
    /\ UNCHANGED <<max_size, ttl, now, pair, envVars>>

\* line 124: P raises e in the suspended call of p
PRaises(p, e) ==
    LET r == on_raise(cache, keys, e) IN
    /\ calls[p].pc = "await"
    /\ cache' = r.cache
    /\ keys' = r.keys
    /\ calls' = [calls EXCEPT ![p] = Idle]
    /\ last' = Seen(calls[p].key, Raise(e), r.ret)
    /\ UNCHANGED <<max_size, ttl, now, firsts, clean, pair, envVars>>

\* sequential use: a call starts only when no other call is in flight
SeqCall == \E shape \in CallShapes : InFlight = {} /\ CallWrapper(1, shape)
SeqReturn == \E value \in Values : PReturns(1, value)
SeqRaise == \E e \in Errors : PRaises(1, e)

Next == Tick \/ SeqCall \/ SeqReturn \/ SeqRaise

Spec == Init /\ [][Next]_vars

(* ------------------------- overlapping cache calls --------------------- *)
\* one event loop: a call runs from its start to `await func(...)` and from
\* P's completion to its end without interruption; calls of several callers
\* overlap while they await P. The overlapping callers use positional
\* arguments only: two distinct keys
ConcShapes == {sh \in CallShapes : sh.kwargs = <<>>}

ConcCall == \E p \in Procs, shape \in ConcShapes : CallWrapper(p, shape)
ConcReturn == \E p \in Procs, value \in Values : PReturns(p, value)
ConcRaise == \E p \in Procs, e \in Errors : PRaises(p, e)

NextConc == Tick \/ ConcCall \/ ConcReturn \/ ConcRaise

SpecConc == Init /\ [][NextConc]_vars

(* ------------------------ the envelope wrappers run -------------------- *)
NextEnv ==
    \/ Tick
    \/ \E variant \in Variants : EnvCall(variant)
    \/ \E code \in WorkStatusCodes : WorkSetsStatus(code)
    \/ WorkReturns
    \/ WorkRaises

SpecEnv == Init /\ [][NextEnv]_vars

(* -------------------------- the image wrapper runs --------------------- *)
NextSvg ==
    \/ Tick
    \/ SvgCall
    \/ \E code \in WorkStatusCodes : WorkSetsStatus(code)
    \/ SvgWorkReturns
    \/ SvgWorkRaises

SpecSvg == Init /\ [][NextSvg]_vars

(* ------------------- two calls compared for their keys ------------------ *)
\* The first call of the pair stores a non-empty result; the second call,
\* made at once, is answered from that entry or invokes P.
InitKey ==
    /\ InitCache
    /\ pair \in AllShapes \X AllShapes
    /\ InitEnv

KeyFirst == last = NoCall /\ InFlight = {} /\ CallWrapper(1, pair[1])
KeyStore == last = NoCall /\ PReturns(1, "V1")
KeySecond == TruthyStored /\ InFlight = {} /\ CallWrapper(1, pair[2])

NextKey == KeyFirst \/ KeyStore \/ KeySecond

SpecKey == InitKey /\ [][NextKey]_vars

(* ----------------------- steps, as a caller sees them ------------------ *)
\* a step in which caller p's call for key k goes on to invoke P
Missed(p, k) == calls[p].pc = "idle" /\ calls'[p].pc = "await" /\ calls'[p].key = k

\* a step in which a call for key k is answered from the table
HitStep(k) ==
    /\ calls' = calls /\ now' = now /\ last' # last
    /\ last'.key = k /\ last'.pres = Nothing

\* a step in which caller p's suspended call completes
Completed(p) == calls[p].pc = "await" /\ calls'[p].pc = "idle"

FalsyReturn(c) == c.pres.kind = "return" /\ c.pres.val \in Falsy
TruthyReturn(c) == c.pres.kind = "return" /\ c.pres.val \notin Falsy

(* ------------------------------- claims ------------------------------- *)

\* C1: after every completed call of a sequential run, the set of keys in
\* the order list `keys` equals the set of keys of the mapping `cache`.
C1_KeysMatchCache == InFlight = {} => Range(keys) = DOMAIN cache

\* C2: after every completed call, returned or raised, `cache` has at most
\* max_size entries and `keys` has at most max_size elements.
C2_SizeBound ==
    InFlight = {} => Cardinality(DOMAIN cache) <= max_size /\ Len(keys) <= max_size

C2_Witness ==
    /\ InFlight = {} /\ max_size = 2
    /\ last.ret = Raise("KeyError")
    /\ Len(keys) = max_size /\ Cardinality(DOMAIN cache) = max_size

\* C3: once a call for key k has returned a non-empty v, the next call (no
\* other call in between) for k made no later than ttl after the entry's
\* insertion time does not invoke P and returns exactly v.
C3_Idempotence ==
    [][ (InFlight = {} /\ last.ret.kind = "return" /\ last.ret.val \notin Falsy) =>
          /\ Has(cache, last.key)
          /\ (now - cache[last.key][1] <= ttl) =>
                /\ \A p \in Procs : ~Missed(p, last.key)
                /\ HitStep(last.key) => last'.ret = last.ret ]_vars

C3_Witness ==
    /\ last.pres = Nothing /\ last.again /\ last.ret = Return("V2")
    /\ Has(cache, last.key) /\ now - cache[last.key][1] = ttl /\ now > 0

\* C4: expiry is lazy and strict: a call for a key whose entry is older than
\* ttl invokes P, a call at age ttl or less is answered with the stored value
\* without invoking P, and the passing of time alone removes nothing.
C4_LazyStrictExpiry ==
    [][ /\ now' # now => cache' = cache /\ keys' = keys
        /\ \A k \in DOMAIN cache : InFlight = {} =>
              /\ now - cache[k][1] > ttl => ~HitStep(k)
              /\ now - cache[k][1] <= ttl =>
                    /\ \A p \in Procs : ~Missed(p, k)
                    /\ HitStep(k) => last'.ret = Return(cache[k][2]) ]_vars

C4_Witness ==
    \E p \in Procs :
        /\ calls[p].pc = "await" /\ Has(cache, calls[p].key)
        /\ calls[p].now - cache[calls[p].key][1] = ttl + 1
        /\ last.key = calls[p].key /\ last.pres = Nothing

\* C5: no entry holds a falsy value; a call in which P returns a falsy value
\* leaves `cache` and `keys` as they were; an entry appears or changes only
\* in a call in which P returned a non-empty value for its key, so the calls
\* that follow for the same key invoke P again.
C5_EmptinessRule ==
    /\ [](\A k \in DOMAIN cache : cache[k][2] \notin Falsy)
    /\ [][ /\ \A p \in Procs : (Completed(p) /\ FalsyReturn(last')) =>
                 cache' = cache /\ keys' = keys
           /\ \A k \in DOMAIN cache' :
                 (~Has(cache, k) \/ cache'[k] # cache[k]) =>
                    /\ \E p \in Procs : Completed(p) /\ calls[p].key = k
                    /\ last'.key = k /\ TruthyReturn(last')
           /\ (InFlight = {} /\ FalsyReturn(last)) => ~HitStep(last.key) ]_vars

C5_Witness ==
    /\ FalsyReturn(last) /\ last.again /\ Has(cache, last.key)
    /\ \E p \in Procs : calls[p].pc = "await" /\ calls[p].key = last.key

\* C6: from an empty table, max_size + 1 sequential insertions of distinct
\* keys with non-empty results leave exactly max_size entries, and the key
\* that is missing is the one inserted first.
C6_Capacity ==
    (clean /\ InFlight = {} /\ Len(firsts) = max_size + 1) =>
        /\ Cardinality(DOMAIN cache) = max_size
        /\ DOMAIN cache = Range(firsts) \ {firsts[1]}

C6_Witness ==
    /\ clean /\ InFlight = {} /\ max_size = 2 /\ Len(firsts) = 3
    /\ last.pres = Return("V1")

\* C7: when P raises, the same failure reaches the caller, `cache` and
\* `keys` are unchanged by the call, and the next call for the key invokes P.
C7_FailureNotCached ==
    [][ /\ \A p \in Procs : (Completed(p) /\ last'.pres.kind = "raise") =>
              last'.ret = last'.pres /\ cache' = cache /\ keys' = keys
        /\ (InFlight = {} /\ last.pres.kind = "raise") => ~HitStep(last.key) ]_vars

C7_Witness ==
    /\ last.pres = Raise("E1") /\ last.ret = Raise("E1") /\ last.again
    /\ Has(cache, last.key)
    /\ \E p \in Procs : calls[p].pc = "await" /\ calls[p].key = last.key

\* C8: two calls map to the same entry if and only if their positional
\* arguments are equal as sequences and their keyword arguments are equal as
\* sets of name/value pairs: keyword order never matters, positional order
\* does, and a value passed positionally differs from one passed by keyword.
SameArgs(a, b) ==
    /\ Len(a.args) = Len(b.args)
    /\ \A i \in DOMAIN a.args : a.args[i] = b.args[i]
    /\ \A i \in DOMAIN a.kwargs : \E j \in DOMAIN b.kwargs : a.kwargs[i] = b.kwargs[j]
    /\ \A j \in DOMAIN b.kwargs : \E i \in DOMAIN a.kwargs : a.kwargs[i] = b.kwargs[j]

SecondHit == last.pres = Nothing /\ last.ret.kind = "return"
SecondMissed == TruthyStored /\ InFlight # {}

C8_KeyCanonical ==
    /\ SecondHit => SameArgs(pair[1], pair[2]) /\ last.ret = Return("V1")
    /\ SecondMissed => ~SameArgs(pair[1], pair[2])

C8_Witness ==
    /\ SecondHit
    /\ Len(pair[1].kwargs) = 2 /\ pair[1].kwargs # pair[2].kwargs
    /\ Len(pair[1].args) = 2

Generic == {"sync", "async"}

C10_GenericFailure ==
    /\ (done.variant \in Generic /\ done.outcome.kind = "raise") =>
          /\ done.status = HTTP_500_INTERNAL_SERVER_ERROR
          /\ req.pc = "idle" => response = HTTP_500_INTERNAL_SERVER_ERROR
          /\ done.result.data = "[]"
          /\ done.result.message = "Error " \o done.outcome.val
    /\ (/\ done.variant \in Generic /\ prev.variant \in Generic
        /\ done.variant # prev.variant
        /\ done.outcome = prev.outcome /\ done.work_status = prev.work_status) =>
          /\ done.status = prev.status
          /\ done.result.data = prev.data
          /\ done.result.message = prev.message

C10_Witness ==
    /\ done.variant = "async" /\ prev.variant = "sync"
    /\ done.outcome = Raise("E2") /\ prev.outcome = Raise("E2")
    /\ done.work_status = 404 /\ prev.work_status = 404
    /\ done.result.message = "Error E2" /\ done.result.time = 1
    /\ response = HTTP_500_INTERNAL_SERVER_ERROR /\ req.pc = "idle"

\* C11: the notification-acknowledgment wrapper never reports a non-success
\* status: after any invocation, failing or succeeding, the response status
\* is 200, and on failure the message is "Error " followed by the failure's
\* description, with data empty.
C11_PubsubAlways200 ==
    (done.variant = "pubsub") =>
        /\ done.status = HTTP_200_OK
        /\ req.pc = "idle" => response = HTTP_200_OK
        /\ done.outcome.kind = "raise" =>
              /\ done.result.message = "Error " \o done.outcome.val
              /\ done.result.data = "[]"

C13_AllAbsorbed ==
    /\ done.variant \in Variants => done.result.message \in {"200 OK"} \cup
                                     {"Error " \o e : e \in WorkErrors}
    /\ image.outcome.kind # "none" => image.result.kind = "response"

\* C14: whenever a call invokes P and P returns a non-empty v, the call
\* returns v without raising and `cache` then holds v under the key, in
\* every reachable table state and for every max_size >= 1.
C14_StoreReturns ==
    (InFlight = {} /\ TruthyReturn(last)) =>
        /\ last.ret = Return(last.pres.val)
        /\ Has(cache, last.key)
        /\ cache[last.key][2] = last.pres.val

\* C15: refreshing a key that is still in the table replaces the entry's
\* insertion time and value and leaves `keys` unchanged: the key is not
\* appended again, and `keys` never holds the same key twice.
C15_RefreshKeepsOrder ==
    /\ [][ \A p \in Procs :
             (Completed(p) /\ TruthyReturn(last') /\ Has(cache, calls[p].key)) =>
                /\ keys' = keys
                /\ Has(cache', calls[p].key)
                /\ cache'[calls[p].key] = <<calls[p].now, last'.pres.val>> ]_vars
    /\ [](\A i, j \in DOMAIN keys : keys[i] = keys[j] => i = j)

\* C16: eviction is strict first-in-first-out by first insertion, also after
\* refreshes: a call that inserts a key never inserted before completes, and when the table
\* held max_size entries it removes exactly one, the one whose key was first
\* inserted earliest, and leaves max_size entries.
FirstIndex(k) == CHOOSE i \in DOMAIN firsts : firsts[i] = k

C16_StrictFifo ==
    [][ \A p \in Procs :
          (Completed(p) /\ TruthyReturn(last') /\ calls[p].key \notin Range(firsts)) =>
             /\ last'.ret = Return(last'.pres.val)
             /\ Cardinality(DOMAIN cache) = max_size =>
                   /\ Cardinality(DOMAIN cache') = max_size
                   /\ \E k \in DOMAIN cache :
                         /\ DOMAIN cache' = ((DOMAIN cache) \ {k}) \cup {calls[p].key}
                         /\ \A j \in DOMAIN cache : FirstIndex(k) <= FirstIndex(j) ]_vars

\* C17 as claimed: when P returns a falsy result, the cache call returns
\* that same result to its caller.
C17_FalsyReturnedAsIs == FalsyReturn(last) => last.ret = Return(last.pres.val)

\* C17 as amended: when P returns a falsy result, the cache call returns
\* None to its caller, whichever falsy value P returned.
C17_FalsyReturnsNone == FalsyReturn(last) => last.ret = Return(NoneVal)

C17_Witness == last.pres = Return("[]") /\ last.ret = Return(NoneVal) /\ last.again

\* C18: in a run of overlapping calls in which no entry expires, the order
\* list and the mapping hold the same key set whenever no call is in flight,
\* and no call raises unless its own P raised.
C18_Cooperative ==
    (now <= ttl) =>
        /\ (InFlight = {} => Range(keys) = DOMAIN cache)
        /\ (last.ret.kind = "raise" => last.pres.kind = "raise")

\* C19: a call that starts while another call with the same key is awaiting
\* P, and while the key has no fresh entry, invokes P itself.
C19_NoDedup ==
    [][\A p \in Procs, q \in Procs, shape \in ConcShapes :
          ( /\ p # q
            /\ calls[q].pc = "await"
            /\ calls[q].key = make_key(shape.args, shape.kwargs)
            /\ must_invoke(cache, calls[q].key, now, ttl)
            /\ CallWrapper(p, shape) )
          => calls'[p].pc = "await"]_vars

\* two calls with the same key, started within one ttl, both await P
C19_Witness ==
    \E p \in Procs, q \in Procs :
        /\ p # q
        /\ calls[p].pc = "await" /\ calls[q].pc = "await"
        /\ calls[p].key = calls[q].key
        /\ calls[q].now - calls[p].now <= ttl
        /\ calls[p].now <= calls[q].now

\* C20: the insertion time a completing call stores is the clock value it
\* read at its start, not the clock value at P's completion.
C20_StartTime ==
    [][\A p \in Procs :
          (Completed(p) /\ TruthyReturn(last') /\ Has(cache', calls[p].key))
          => cache'[calls[p].key][1] = calls[p].now]_vars

\* a completed call replaced an entry by one with an earlier insertion time,
\* which is also earlier than the time of its completion
C20_Witness ==
    /\ last.older
    /\ Has(cache, last.key)
    /\ cache[last.key][1] < now

====
